---- MODULE Spec2Model ----
(***************************************************************************)
(* Blockwise-to-threadwise GEMM lowering of the MIOpen dialect             *)
(* (mlir/lib/Dialect/MIOpen/Transforms/BlockwiseGemmToThreadwise.cpp).     *)
(*                                                                         *)
(* Spec: one root op handed to its rewrite rule, the IR the rule leaves    *)
(* behind, and the values one GPU lane computes when it runs the generated *)
(* staging / copy / fill code (one generated loop per step).               *)
(* DriverSpec: the conversion driver applying the four rules to the        *)
(* illegal ops of a unit.                                                  *)
(* NestSpec: the two unrolled copy loops of the non-XDLOPS rule, one       *)
(* element per step, with index differences.                               *)
(*                                                                         *)
(* `assert` is modelled with its checking semantics (a failed assertion    *)
(* ends the process).  `llvm_unreachable` is undefined behaviour once      *)
(* reached: the model lets it either end the process or fall through.      *)
(***************************************************************************)
EXTENDS Integers, Sequences, FiniteSets, TLC

VARIABLES
    op,        \* the root op given to matchAndRewrite (its attributes)
    table,     \* instruction capability table, restricted to the key op looks up
    pc,        \* position: "start", "rewritten", "staged", "loop", "copiedA",
               \*           "copiedB", "done", "filled", "aborted"; "driver" in
               \*           DriverSpec; "copyA", "copyB", "copied" in NestSpec
    ir,        \* what the rewrite left in the IR (created ops, replacement, ...)
    lane,      \* run-time values of the lane executing the generated code
    bufferA,   \* stores into register buffer A, in program order
    bufferB,   \* stores into register buffer B, in program order
    loadsA,    \* loads from shared-memory matrix A, in program order
    loadsB,    \* loads from shared-memory matrix B, in program order
    kOffset,   \* induction variable of the generated outer K loop (non-XDLOPS)
    filled,    \* stores of the loop nest generated for a Fill op, in program order
    unit,      \* the ops of the unit the pass runs on (conversion driver)
    outcomes,  \* per op of the unit: what its rewrite left behind, NoIR before
    driver,    \* "NotStarted", "Rewriting", "Converged" or "Failed"
    applicable, \* per op of the unit: the framework can apply the op's rule
    passFailure, \* signalPassFailure() has been called
    iter,      \* iteration of an unrolled copy loop (0-based)
    lowerCoords \* the loop's lower coordinates, kept by index differences

ruleVars == <<op, table, pc, ir, lane, bufferA, bufferB, loadsA, loadsB, kOffset>>

driverVars == <<unit, outcomes, applicable, driver, passFailure>>

nestVars == <<iter, lowerCoords>>

vars == <<ruleVars, filled, driverVars, nestVars>>

-----------------------------------------------------------------------------
(* Bounds of the model.                                                    *)

MaxRepeat == 3        \* per-wave sizes range up to 64 * MaxRepeat + 32
MaxKSteps == 2        \* GEMM-V2 K is 2, 4, ..., 2 * MaxKSteps
MaxPerThread == 2     \* non-XDLOPS kPerThread, mPerThread, nPerThread in 1..MaxPerThread
MaxRank == 3          \* Fill: buffers of rank 0..MaxRank
MaxExtent == 2        \* Fill: every dimension has extent 0..MaxExtent
MaxUnit == 2          \* conversion driver: units of 1..MaxUnit illegal ops
MaxC == 5             \* non-XDLOPS per-thread output extents mC, nC in 1..MaxC

(* Program constants.                                                      *)

NativeTile == 64      \* native instruction tile edge (lines 263-266)
waveSize == 64        \* line 328

NoVariant == [instr |-> "none"]     \* the lookup found no instruction variant
NoIR == [rule |-> "none"]           \* no rule has run yet
NoCoords == [source |-> <<>>, dest |-> 0]   \* no copy loop is running
NoLane == [tid |-> 0, waveOffsetA |-> 0, waveOffsetB |-> 0, aBase |-> 0, bBase |-> 0,
           threadOffsetA |-> 0, threadOffsetB |-> 0]

-----------------------------------------------------------------------------
(* Small helpers.                                                          *)

Max2(a, b) == IF a >= b THEN a ELSE b

\* llvm::ArrayRef::take_front / drop_front on a sequence
take_front(s, c) == SubSeq(s, 1, c)
drop_front(s, c) == SubSeq(s, c + 1, Len(s))

-----------------------------------------------------------------------------
(* Instruction selection (XdlopsCodeSelection::get).  Its table is not     *)
(* part of this file: a lookup either yields a descriptor or finds no      *)
(* variant for the (type, tile) key, which is fatal.                       *)

MfmaVariants ==
    { [instr |-> "mfma_32x32x1", num_threads_blk |-> 32, num_input_blks |-> 2,
       num_output_blks |-> 2, k_base |-> 1],
      [instr |-> "mfma_32x32x2", num_threads_blk |-> 32, num_input_blks |-> 2,
       num_output_blks |-> 1, k_base |-> 1],
      [instr |-> "mfma_16x16x16", num_threads_blk |-> 16, num_input_blks |-> 4,
       num_output_blks |-> 1, k_base |-> 4],
      [instr |-> "mfma_4x4x4", num_threads_blk |-> 64, num_input_blks |-> 1,
       num_output_blks |-> 1, k_base |-> 4] }

SelectionKey(o) == <<o.dataType, o.m_per_wave, o.n_per_wave>>

XdlopsCodeSelection_get(t, o) == t[SelectionKey(o)]

-----------------------------------------------------------------------------
(* BlockwiseGemmV2 lowering: values computed at rewrite time.              *)

KPack(o) == IF o.hasKpack THEN o.kpack ELSE 1

\* (faulty variant: rounds up)
MRepeats_ceil(o) == (o.m_per_wave + NativeTile - 1) \div NativeTile
MRepeats(o) == IF o.m_per_wave > NativeTile THEN o.m_per_wave \div NativeTile ELSE 1

NRepeats(o) == IF o.n_per_wave > NativeTile THEN o.n_per_wave \div NativeTile ELSE 1

MPerXdlops(o) == IF o.m_per_wave > NativeTile THEN NativeTile ELSE o.m_per_wave

NPerXdlops(o) == IF o.n_per_wave > NativeTile THEN NativeTile ELSE o.n_per_wave

\* (faulty variant: the assert on B is missing)
LdsAligned_onlyA(o) == o.ldsBufferOffsetA % KPack(o) = 0
\* the two asserts at entry
LdsAligned(o) ==
    /\ o.ldsBufferOffsetA % KPack(o) = 0
    /\ o.ldsBufferOffsetB % KPack(o) = 0

\* value of the ConstantIndexOp added to the wave offset
aBaseConst(o) == o.ldsBufferOffsetA \div KPack(o)

bBaseConst(o) == o.ldsBufferOffsetB \div KPack(o)

\* (faulty variant: the output-block count is not looked at)
IsKReduction_inputBlksOnly(x) == x.num_input_blks > 1
IsKReduction(x) == (x.num_output_blks = 1) /\ (x.num_input_blks > 1)

KPackUnreachable(o, x) ==
    KPack(o) > 1 /\ (KPack(o) < x.k_base \/ KPack(o) % x.k_base # 0)

KPerThread(o, x) == IF IsKReduction(x) THEN o.k \div x.num_input_blks ELSE o.k

\* type of the i-th result (vectorDs()[i-1]) of the original op
VectorDType(o, i) == <<"typeof vectorD", i>>

-----------------------------------------------------------------------------
(* Ops the GEMM-V2 rule creates, by name, in creation order.               *)

\* aBase, bBase (lines 288-293)
V2BaseOps == <<"arith.constant", "arith.addi", "arith.constant", "arith.addi">>

\* lane id and the index constants (lines 327-355)
V2LaneOps ==
    <<"miopen.workitem_id", "arith.constant", "arith.remui",
      "arith.constant", "arith.constant", "arith.constant",
      "arith.constant", "arith.constant", "arith.constant", "arith.constant">>

V2KPackMul(o) == IF KPack(o) > 1 THEN <<"arith.constant", "arith.muli">> ELSE <<>>

\* one two-level staging loop nest of the non-K-reduction strategy
V2PlainNest(o) ==
    <<"affine.for", "arith.muli", "arith.addi", "arith.muli", "affine.for",
      "arith.muli", "arith.addi", "arith.addi">>
    \o V2KPackMul(o)
    \o <<"arith.addi", "miopen.in_bounds_load", "memref.store">>

\* the staging loop of the K-reduction strategy
V2KReductionOps(o) ==
    <<"arith.constant", "arith.divui", "arith.remui", "arith.addi", "arith.addi",
      "arith.constant", "affine.for">>
    \o <<"arith.muli", "arith.addi", "arith.muli", "arith.addi">> \o V2KPackMul(o)
    \o <<"miopen.in_bounds_load", "memref.store">>
    \o <<"arith.muli", "arith.addi", "arith.muli", "arith.addi">> \o V2KPackMul(o)
    \o <<"miopen.in_bounds_load", "memref.store">>

V2StagingOps(o, x) ==
    IF IsKReduction(x) THEN V2KReductionOps(o)
    ELSE V2PlainNest(o) \o V2PlainNest(o)

-----------------------------------------------------------------------------
(* Emission of the instruction-matrix GEMM ops (lines 495-616).            *)

\* accumulator operands of the original op, by position
VectorCs(o) == [i \in 1..o.nVectors |-> <<"vectorC", i>>]

XdlopsGemmV2Op(o, resultTypes, regOffsetA, regOffsetB, vectorCs, mpw, npw) ==
    [ name |-> "miopen.xdlops_gemm_v2",
      resultTypes |-> resultTypes,
      ldsBufferOffsetA |-> o.ldsBufferOffsetA,
      ldsBufferOffsetB |-> o.ldsBufferOffsetB,
      regOffsetA |-> regOffsetA,
      regOffsetB |-> regOffsetB,
      vectorCs |-> vectorCs,
      m |-> o.m, n |-> o.n, k |-> o.k,
      m_per_wave |-> mpw, n_per_wave |-> npw,
      hasKpack |-> o.hasKpack, kpack |-> o.kpack ]

\* a replacement value: result d of the created GEMM op number g
Result(g, d) == <<g, d>>

\* MRepeats == 1 && NRepeats == 1
EmitSingle(o) ==
    [ gemms |-> << XdlopsGemmV2Op(o, [i \in 1..o.nVectors |-> VectorDType(o, i)],
                                  0, 0, VectorCs(o), o.m_per_wave, o.n_per_wave) >>,
      replaced |-> TRUE,
      repl |-> [i \in 1..o.nVectors |-> Result(1, i)] ]

\* (faulty variant: the K-offset of the second op is on the B side)
EmitMRepeat_swappedOffsets(o, kpt) ==
    [ gemms |-> << XdlopsGemmV2Op(o, <<VectorDType(o, 1), VectorDType(o, 2)>>,
                                  0, 0, take_front(VectorCs(o), 2),
                                  NativeTile, NativeTile),
                   XdlopsGemmV2Op(o, <<VectorDType(o, 3), VectorDType(o, 4)>>,
                                  0, kpt, drop_front(VectorCs(o), 2),
                                  NativeTile, NativeTile) >>,
      replaced |-> TRUE,
      repl |-> <<Result(1, 1), Result(1, 2), Result(2, 1), Result(2, 2)>> ]
\* MRepeats == 2 && NRepeats == 1
EmitMRepeat(o, kpt) ==
    [ gemms |-> << XdlopsGemmV2Op(o, <<VectorDType(o, 1), VectorDType(o, 2)>>,
                                  0, 0, take_front(VectorCs(o), 2),
                                  NativeTile, NativeTile),
                   XdlopsGemmV2Op(o, <<VectorDType(o, 3), VectorDType(o, 4)>>,
                                  kpt, 0, drop_front(VectorCs(o), 2),
                                  NativeTile, NativeTile) >>,
      replaced |-> TRUE,
      repl |-> <<Result(1, 1), Result(1, 2), Result(2, 1), Result(2, 2)>> ]

\* (faulty variant: the ops keep the original per-wave sizes)
EmitNRepeat_ownTile(o, kpt) ==
    [ gemms |-> << XdlopsGemmV2Op(o, <<VectorDType(o, 1), VectorDType(o, 2)>>,
                                  0, 0, take_front(VectorCs(o), 2),
                                  o.m_per_wave, o.n_per_wave),
                   XdlopsGemmV2Op(o, <<VectorDType(o, 3), VectorDType(o, 4)>>,
                                  0, kpt, drop_front(VectorCs(o), 2),
                                  o.m_per_wave, o.n_per_wave) >>,
      replaced |-> TRUE,
      repl |-> <<Result(1, 1), Result(1, 2), Result(2, 1), Result(2, 2)>> ]
\* (faulty variant: both ops accumulate into the first two accumulators)
EmitNRepeat_sameAccumulators(o, kpt) ==
    [ gemms |-> << XdlopsGemmV2Op(o, <<VectorDType(o, 1), VectorDType(o, 2)>>,
                                  0, 0, take_front(VectorCs(o), 2),
                                  NativeTile, NativeTile),
                   XdlopsGemmV2Op(o, <<VectorDType(o, 3), VectorDType(o, 4)>>,
                                  0, kpt, take_front(VectorCs(o), 2),
                                  NativeTile, NativeTile) >>,
      replaced |-> TRUE,
      repl |-> <<Result(1, 1), Result(1, 2), Result(2, 1), Result(2, 2)>> ]
\* MRepeats == 1 && NRepeats == 2
EmitNRepeat(o, kpt) ==
    [ gemms |-> << XdlopsGemmV2Op(o, <<VectorDType(o, 1), VectorDType(o, 2)>>,
                                  0, 0, take_front(VectorCs(o), 2),
                                  NativeTile, NativeTile),
                   XdlopsGemmV2Op(o, <<VectorDType(o, 3), VectorDType(o, 4)>>,
                                  0, kpt, drop_front(VectorCs(o), 2),
                                  NativeTile, NativeTile) >>,
      replaced |-> TRUE,
      repl |-> <<Result(1, 1), Result(1, 2), Result(2, 1), Result(2, 2)>> ]

\* no branch of the chain matches: nothing is created, the op is not replaced
EmitNothing == [ gemms |-> <<>>, replaced |-> FALSE, repl |-> <<>> ]

\* the if / else-if chain on (MRepeats, NRepeats)
Emission(o, kpt) ==
    IF MRepeats(o) = 1 /\ NRepeats(o) = 1 THEN EmitSingle(o)
    ELSE IF MRepeats(o) = 2 /\ NRepeats(o) = 1 THEN EmitMRepeat(o, kpt)
    ELSE IF MRepeats(o) = 1 /\ NRepeats(o) = 2 THEN EmitNRepeat(o, kpt)
    ELSE EmitNothing

GemmOpNames(e) == [i \in 1..Len(e.gemms) |-> e.gemms[i].name]

-----------------------------------------------------------------------------
(* Outcome of BlockwiseGemmV2RewritePattern::matchAndRewrite.              *)

V2Outcome(o, result, fatal, created, x, kpt, e) ==
    [ rule |-> "BlockwiseGemmV2",
      result |-> result,          \* "success" or "abort"
      fatal |-> fatal,            \* what ended the process, "none" on success
      created |-> created,
      MRepeats |-> MRepeats(o), NRepeats |-> NRepeats(o),
      MPerXdlops |-> MPerXdlops(o), NPerXdlops |-> NPerXdlops(o),
      aBaseConst |-> aBaseConst(o), bBaseConst |-> bBaseConst(o),
      xcs |-> x, KPerThread |-> kpt,
      gemms |-> e.gemms, replaced |-> e.replaced, repl |-> e.repl ]

\* everything after the KPack check: lane id, staging, emission, success()
V2Lowered(o, x) ==
    LET e == Emission(o, KPerThread(o, x))
    IN V2Outcome(o, "success", "none",
                 V2BaseOps \o V2LaneOps \o V2StagingOps(o, x) \o GemmOpNames(e),
                 x, KPerThread(o, x), e)

-----------------------------------------------------------------------------
(* Addresses computed by the generated staging code, for one lane.         *)

laneId(ln) == ln.tid % waveSize

\* aBase = waveOffsetA + ldsOffsetA / KPack
aBase(o, ln) == ln.waveOffsetA + aBaseConst(o)

bBase(o, ln) == ln.waveOffsetB + bBaseConst(o)

\* the lane with the values of the two base AddIOps filled in
WithBases(o, ln) == [ln EXCEPT !.aBase = aBase(o, ln), !.bBase = bBase(o, ln)]

\* (faulty variant: the multiplication is never emitted)
ScaleByKPack_never(o, addr) == addr
\* the final multiplication by KPack, emitted only when KPack > 1
ScaleByKPack(o, addr) == IF KPack(o) > 1 THEN addr * KPack(o) ELSE addr

\* non-K-reduction, buffer A (lines 365-393)
sourceOffsetA(o, ln, k_i, m_i) ==
    LET mOffset == aBase(o, ln) + MPerXdlops(o) * m_i
    IN ScaleByKPack(o, ((k_i * o.m) + laneId(ln)) + mOffset)

\* (faulty variant: the repeat index is not scaled by K)
destOffsetA_unscaled(o, k_i, m_i) == k_i + m_i
destOffsetA(o, k_i, m_i) == k_i + m_i * o.k

\* non-K-reduction, buffer B (lines 402-430)
sourceOffsetB(o, ln, k_i, n_i) ==
    LET nOffset == bBase(o, ln) + NPerXdlops(o) * n_i
    IN ScaleByKPack(o, ((k_i * o.n) + laneId(ln)) + nOffset)

destOffsetB(o, k_i, n_i) == k_i + n_i * o.k

\* K-reduction (lines 432-492)
\* (faulty variant: the lane id is divided by the input-block count)
blk_id_byInputBlks(x, ln) == laneId(ln) \div x.num_input_blks
blk_id(x, ln) == laneId(ln) \div x.num_threads_blk

blk_td(x, ln) == laneId(ln) % x.num_threads_blk

sourceOffsetA_KReduction(o, x, ln, k_i) ==
    LET kBaseA == aBase(o, ln) + blk_td(x, ln)
    IN ScaleByKPack(o, ((k_i * x.num_input_blks + blk_id(x, ln)) * o.m) + kBaseA)

sourceOffsetB_KReduction(o, x, ln, k_i) ==
    LET kBaseB == bBase(o, ln) + blk_td(x, ln)
    IN ScaleByKPack(o, ((k_i * x.num_input_blks + blk_id(x, ln)) * o.n) + kBaseB)

\* The stores one lane performs, in program order.  A store records the
\* register slot, the shared-memory element address loaded into it and the
\* loop indices (r: repeat, i: k).
StagedA(o, x, ln) ==
    IF IsKReduction(x)
    THEN [j \in 1..KPerThread(o, x) |->
            [slot |-> j - 1, addr |-> sourceOffsetA_KReduction(o, x, ln, j - 1),
             r |-> 0, i |-> j - 1]]
    ELSE [j \in 1..(MRepeats(o) * KPerThread(o, x)) |->
            LET m_i == (j - 1) \div KPerThread(o, x)
                k_i == (j - 1) % KPerThread(o, x)
            IN [slot |-> destOffsetA(o, k_i, m_i),
                addr |-> sourceOffsetA(o, ln, k_i, m_i), r |-> m_i, i |-> k_i]]

StagedB(o, x, ln) ==
    IF IsKReduction(x)
    THEN [j \in 1..KPerThread(o, x) |->
            [slot |-> j - 1, addr |-> sourceOffsetB_KReduction(o, x, ln, j - 1),
             r |-> 0, i |-> j - 1]]
    ELSE [j \in 1..(NRepeats(o) * KPerThread(o, x)) |->
            LET n_i == (j - 1) \div KPerThread(o, x)
                k_i == (j - 1) % KPerThread(o, x)
            IN [slot |-> destOffsetB(o, k_i, n_i),
                addr |-> sourceOffsetB(o, ln, k_i, n_i), r |-> n_i, i |-> k_i]]

Addrs(stores) == [j \in 1..Len(stores) |-> stores[j].addr]

-----------------------------------------------------------------------------
(* Index transforms (TransformMapBuilder.h) and the unrolled                *)
(* TransformingForOp, which are not part of this file.                      *)

\* embed: lower coordinate = sum of upper coordinate x coefficient
Embed(coords, coeffs) ==
    LET RECURSIVE Sum(_)
        Sum(i) == IF i = 0 THEN 0 ELSE coords[i] * coeffs[i] + Sum(i - 1)
    IN Sum(Len(coords))

\* construction-time precondition of embed: sum of extent x coefficient
\* must not exceed the lower extent
EmbedValid(extents, coeffs, lowerExtent) == Embed(extents, coeffs) <= lowerExtent

\* unmerge: the flat (row-major) index of a coordinate tuple
Unmerge(coords, extents) ==
    LET RECURSIVE Flat(_)
        Flat(i) == IF i = 0 THEN 0 ELSE Flat(i - 1) * extents[i] + coords[i]
    IN Flat(Len(coords))

\* number of iterations of a loop nest with the given bounds
Iterations(bounds) ==
    LET RECURSIVE Prod(_)
        Prod(i) == IF i = 0 THEN 1 ELSE bounds[i] * Prod(i - 1)
    IN Prod(Len(bounds))

\* induction variables of iteration j (0-based) of the nest, last one fastest
LoopIvs(j, bounds) ==
    LET RECURSIVE Stride(_)
        Stride(i) == IF i >= Len(bounds) THEN 1 ELSE bounds[i + 1] * Stride(i + 1)
    IN [i \in 1..Len(bounds) |-> (j \div Stride(i)) % bounds[i]]

\* difference of the induction variables between iteration j and j + 1 of
\* the nest (components that wrap around are negative)
UpperDiff(j, bounds) ==
    [i \in 1..Len(bounds) |-> LoopIvs(j + 1, bounds)[i] - LoopIvs(j, bounds)[i]]

\* index differences: the change of a transform's lower coordinate caused
\* by a change d of its upper coordinates
PassThroughDelta(d) == d

EmbedDelta(d, coeffs) ==
    LET RECURSIVE Sum(_)
        Sum(i) == IF i > Len(d) THEN 0 ELSE d[i] * coeffs[i] + Sum(i + 1)
    IN Sum(1)

\* (faulty variant: every dimension is given the stride of the last one)
UnmergeDelta_unitStrides(d, extents) ==
    LET RECURSIVE Sum(_)
        Sum(i) == IF i > Len(d) THEN 0 ELSE d[i] + Sum(i + 1)
    IN Sum(1)
UnmergeDelta(d, extents) ==
    LET RECURSIVE Stride(_)
        Stride(i) == IF i >= Len(extents) THEN 1 ELSE extents[i + 1] * Stride(i + 1)
        RECURSIVE Sum(_)
        Sum(i) == IF i > Len(d) THEN 0 ELSE d[i] * Stride(i) + Sum(i + 1)
    IN Sum(1)

-----------------------------------------------------------------------------
(* BlockwiseGemm (non-XDLOPS) lowering: values computed at rewrite time.   *)

mRepeat(o) == o.mC \div o.mPerThread

nRepeat(o) == o.nC \div o.nPerThread

\* (faulty variant: the embed of A is built without its precondition)
strideLDSBufferAValid_unchecked(o) == TRUE
\* strideLDSBufferA: {k, mRepeat, mPerThread, kpack} -> {k, m, kpack}
strideLDSBufferAValid(o) ==
    EmbedValid(<<mRepeat(o), o.m \div mRepeat(o)>>, <<o.mRepeatStride, 1>>, o.m)

strideLDSBufferA(o, u) ==
    <<u[1], Embed(<<u[2], u[3]>>, <<o.mRepeatStride, 1>>), u[4]>>

\* (faulty variant: only the repeat dimension is checked against n)
strideLDSBufferBValid_repeatOnly(o) == nRepeat(o) * o.nRepeatStride <= o.n
strideLDSBufferBValid(o) ==
    EmbedValid(<<nRepeat(o), o.n \div nRepeat(o)>>, <<o.nRepeatStride, 1>>, o.n)

strideLDSBufferB(o, u) ==
    <<u[1], Embed(<<u[2], u[3]>>, <<o.nRepeatStride, 1>>), u[4]>>

\* (faulty variant: sized per repeat, without the per-thread extent)
threadANumRegisters_perRepeat(o) == o.kPerThread * mRepeat(o) * o.kPack
threadANumRegisters(o) == o.kPerThread * o.mC * o.kPack

threadBNumRegisters(o) == o.kPerThread * o.nC * o.kPack

\* GpuAllocOp of a flat buffer in the private address space
GpuAllocOp(size) == [name |-> "miopen.alloc", size |-> size, addressSpace |-> "private"]

\* (faulty variant: the kpack dimension is dropped from the view)
viewAExtents_noKPack(o) == <<o.kPerThread, mRepeat(o), o.mPerThread, 1>>
\* viewA / viewB: extents of the unmerge of the flat register buffer
viewAExtents(o) == <<o.kPerThread, mRepeat(o), o.mPerThread, o.kPack>>

viewBExtents(o) == <<o.kPerThread, nRepeat(o), o.nPerThread, o.kPack>>

\* bounds of the two copy loops
copyABounds(o) == <<o.kPerThread, mRepeat(o), o.mPerThread, o.kPack>>

copyBBounds(o) == <<o.kPerThread, nRepeat(o), o.nPerThread, o.kPack>>

\* (faulty variant: the loop is created first, the buffers after it)
GemmPrologue_loopFirst ==
    << [ name |-> "arith.constant", result |-> "zeroConstantOp", operands |-> <<>> ],
       [ name |-> "affine.for", result |-> "loopOp", operands |-> <<>> ],
       [ name |-> "miopen.alloc", result |-> "threadAAllocOp", operands |-> <<>> ],
       [ name |-> "miopen.alloc", result |-> "threadBAllocOp", operands |-> <<>> ] >>
\* the ops created at the rewriter's insertion point, in order, up to the
\* loop that replaces the op: each with the value it defines and the values
\* it uses (the loop's bounds 0, k, kPerThread are constants)
GemmPrologue ==
    << [ name |-> "arith.constant", result |-> "zeroConstantOp", operands |-> <<>> ],
       [ name |-> "miopen.alloc", result |-> "threadAAllocOp", operands |-> <<>> ],
       [ name |-> "miopen.alloc", result |-> "threadBAllocOp", operands |-> <<>> ],
       [ name |-> "affine.for", result |-> "loopOp", operands |-> <<>> ] >>

\* ops created in front of the outer loop, and the loop that replaces the op
GemmCreatedOps == <<"arith.constant", "miopen.alloc", "miopen.alloc", "affine.for">>

\* ops created inside the outer loop's body
GemmBodyOps ==
    <<"miopen.transforming_for", "memref.load", "memref.store",
      "miopen.transforming_for", "memref.load", "memref.store",
      "miopen.transform", "miopen.transform", "miopen.threadwise_gemm">>

\* (faulty variant: the GEMM is created between the two copies)
GemmLoopBody_gemmBeforeCopyB ==
    << [ name |-> "miopen.transforming_for", reads |-> <<"matrixA">>,
         writes |-> "threadAAllocOp" ],
       [ name |-> "miopen.threadwise_gemm",
         reads |-> <<"threadAAllocOp", "threadBAllocOp">>, writes |-> "matrixC" ],
       [ name |-> "miopen.transforming_for", reads |-> <<"matrixB">>,
         writes |-> "threadBAllocOp" ] >>
\* the statements of the outer loop's body, in program order: copyALoop,
\* copyBLoop, and the ThreadwiseGemmOp on the (reshaped) register buffers
GemmLoopBody ==
    << [ name |-> "miopen.transforming_for", reads |-> <<"matrixA">>,
         writes |-> "threadAAllocOp" ],
       [ name |-> "miopen.transforming_for", reads |-> <<"matrixB">>,
         writes |-> "threadBAllocOp" ],
       [ name |-> "miopen.threadwise_gemm",
         reads |-> <<"threadAAllocOp", "threadBAllocOp">>, writes |-> "matrixC" ] >>

GemmOutcome(o, result, fatal, created, body, allocs) ==
    [ rule |-> "BlockwiseGemm",
      result |-> result, fatal |-> fatal,
      created |-> created, body |-> body,
      loopBody |-> IF result = "success" THEN GemmLoopBody ELSE <<>>,
      prologue |-> IF result = "success" THEN GemmPrologue
                   ELSE take_front(GemmPrologue, Len(created)),
      mRepeat |-> mRepeat(o), nRepeat |-> nRepeat(o),
      allocs |-> allocs,
      loop |-> [lb |-> 0, ub |-> o.k, step |-> o.kPerThread],
      replaced |-> (result = "success") ]

GemmLowered(o) ==
    GemmOutcome(o, "success", "none", GemmCreatedOps, GemmBodyOps,
                <<GpuAllocOp(threadANumRegisters(o)),
                  GpuAllocOp(threadBNumRegisters(o))>>)

-----------------------------------------------------------------------------
(* The generated copy loops, for one thread and one outer-loop iteration.  *)

\* loads of copyALoop: lower coordinates (k, m, kpack) in matrix A
CopyALoads(o, ln, kOff) ==
    [j \in 1..Iterations(copyABounds(o)) |->
        LET iv == LoopIvs(j - 1, copyABounds(o))
        IN strideLDSBufferA(o, <<kOff + iv[1], iv[2], ln.threadOffsetA + iv[3], iv[4]>>)]

\* stores of copyALoop: slot in register buffer A, and the element stored
CopyAStores(o, ln, kOff) ==
    [j \in 1..Iterations(copyABounds(o)) |->
        LET iv == LoopIvs(j - 1, copyABounds(o))
        IN [slot |-> Unmerge(iv, viewAExtents(o)),
            addr |-> strideLDSBufferA(o, <<kOff + iv[1], iv[2],
                                           ln.threadOffsetA + iv[3], iv[4]>>)]]

CopyBLoads(o, ln, kOff) ==
    [j \in 1..Iterations(copyBBounds(o)) |->
        LET iv == LoopIvs(j - 1, copyBBounds(o))
        IN strideLDSBufferB(o, <<kOff + iv[1], iv[2], ln.threadOffsetB + iv[3], iv[4]>>)]

CopyBStores(o, ln, kOff) ==
    [j \in 1..Iterations(copyBBounds(o)) |->
        LET iv == LoopIvs(j - 1, copyBBounds(o))
        IN [slot |-> Unmerge(iv, viewBExtents(o)),
            addr |-> strideLDSBufferB(o, <<kOff + iv[1], iv[2],
                                           ln.threadOffsetB + iv[3], iv[4]>>)]]

-----------------------------------------------------------------------------
(* Fill lowering.                                                          *)

\* (faulty variant: the loops start at 1)
lbs_one(inputShape) == [d \in 1..Len(inputShape) |-> 1]
\* llvm::SmallVector<int64_t> lbs(inputShape.size(), 0)
lbs(inputShape) == [d \in 1..Len(inputShape) |-> 0]

\* llvm::SmallVector<int64_t> strides(inputShape.size(), 1)
strides(inputShape) == [d \in 1..Len(inputShape) |-> 1]

\* buildAffineLoopNest: one affine.for per dimension, outermost first
buildAffineLoopNest(lowerBounds, upperBounds, steps) ==
    [d \in 1..Len(upperBounds) |->
        [lb |-> lowerBounds[d], ub |-> upperBounds[d], step |-> steps[d]]]

\* trip count of one affine.for
TripCount(l) == IF l.ub > l.lb THEN (l.ub - l.lb + l.step - 1) \div l.step ELSE 0

\* induction variables of every execution of the innermost body of a loop
\* nest, in program order (a nest of no loops runs its body once)
LoopNestIvs(loops) ==
    LET trips == [d \in 1..Len(loops) |-> TripCount(loops[d])]
    IN [j \in 1..Iterations(trips) |->
           LET idx == LoopIvs(j - 1, trips)
           IN [d \in 1..Len(loops) |-> loops[d].lb + idx[d] * loops[d].step]]

FillCreatedOps(inputShape) ==
    [d \in 1..Len(inputShape) |-> "affine.for"] \o <<"memref.store">>

\* FillRewritePattern::matchAndRewrite: it always returns success
FillLowered(o) ==
    [ rule |-> "Fill", result |-> "success", fatal |-> "none",
      created |-> FillCreatedOps(o.inputShape),
      loops |-> buildAffineLoopNest(lbs(o.inputShape), o.inputShape,
                                    strides(o.inputShape)),
      store |-> [name |-> "memref.store", value |-> o.value, memref |-> "input"],
      replaced |-> TRUE, repl |-> <<>> ]

FillRewritePattern(o) == {FillLowered(o)}

\* the stores one thread performs when it runs the generated loop nest
FillStores(r) ==
    [j \in 1..Len(LoopNestIvs(r.loops)) |->
        [coord |-> LoopNestIvs(r.loops)[j], value |-> r.store.value]]

-----------------------------------------------------------------------------
(* ThreadwiseCopyV2 lowering.                                              *)

\* (faulty variant: the element type is never widened to a vector)
CopyType_scalar(copyLength, elementType) ==
    [vector |-> FALSE, length |-> 1, elementType |-> elementType]
\* typeToLoad / typeToStore: a vector of copyLength elements when
\* copyLength > 1, the element type itself otherwise
CopyType(copyLength, elementType) ==
    IF copyLength > 1
    THEN [vector |-> TRUE, length |-> copyLength, elementType |-> elementType]
    ELSE [vector |-> FALSE, length |-> 1, elementType |-> elementType]

InBoundsLoadOp(o) ==
    [ name |-> "miopen.in_bounds_load",
      type |-> CopyType(o.length, o.sourceElementType),
      source |-> "source", coord |-> o.sourceCoord ]

BufferStoreOp(o) ==
    [ name |-> "miopen.buffer_store", data |-> "loaded", dest |-> "dest",
      leftOobDims |-> o.leftOobDims, rightOobDims |-> o.rightOobDims,
      coord |-> o.destCoord, storeMethod |-> o.storeMethod ]

\* ThreadwiseCopyV2RewritePattern::matchAndRewrite: it always returns success
ThreadwiseCopyV2Lowered(o) ==
    [ rule |-> "ThreadwiseCopyV2", result |-> "success", fatal |-> "none",
      created |-> <<"miopen.in_bounds_load", "miopen.buffer_store">>,
      load |-> InBoundsLoadOp(o), store |-> BufferStoreOp(o),
      replaced |-> TRUE, repl |-> <<"miopen.buffer_store">> ]

ThreadwiseCopyV2RewritePattern(o) == {ThreadwiseCopyV2Lowered(o)}

-----------------------------------------------------------------------------
(* The conversion target declared by runOnOperation.                       *)

\* target.addIllegalOp<FillOp, BlockwiseGemmOp, BlockwiseGemmV2Op,
\*                     ThreadwiseCopyV2Op>()
IllegalOps ==
    {"miopen.fill", "miopen.blockwise_gemm", "miopen.blockwise_gemm_v2",
     "miopen.threadwise_copy_v2"}

\* (faulty variant: the MIOpen dialect is not declared legal)
LegalDialects_withoutMIOpen == {"arith", "affine", "memref", "vector"}
\* target.addLegalDialect<arith, miopen, affine, memref, vector>()
LegalDialects == {"arith", "miopen", "affine", "memref", "vector"}

\* the dialect an op belongs to (the prefix of its name)
DialectOf(nm) ==
    CASE nm \in {"arith.constant", "arith.addi", "arith.muli", "arith.remui",
                 "arith.divui"} -> "arith"
      [] nm \in {"affine.for"} -> "affine"
      [] nm \in {"memref.load", "memref.store"} -> "memref"
      [] nm \in {"miopen.workitem_id", "miopen.alloc", "miopen.transforming_for",
                 "miopen.transform", "miopen.in_bounds_load", "miopen.buffer_store",
                 "miopen.threadwise_gemm", "miopen.xdlops_gemm_v2"}
           \cup IllegalOps -> "miopen"
      [] OTHER -> "unknown"

\* the op named by a root op's kind
OpName(o) ==
    CASE o.kind = "Fill" -> "miopen.fill"
      [] o.kind = "BlockwiseGemm" -> "miopen.blockwise_gemm"
      [] o.kind = "BlockwiseGemmV2" -> "miopen.blockwise_gemm_v2"
      [] o.kind = "ThreadwiseCopyV2" -> "miopen.threadwise_copy_v2"

\* legality of an op under the target: an op-specific declaration takes
\* precedence over its dialect's
isLegal(nm) == nm \notin IllegalOps /\ DialectOf(nm) \in LegalDialects

\* names of all ops a rewrite created
CreatedOps(r) ==
    {r.created[j] : j \in DOMAIN r.created}
      \cup (IF r.rule = "BlockwiseGemm" THEN {r.body[j] : j \in DOMAIN r.body} ELSE {})

\* index differences of the two domains of copyALoop / copyBLoop: the
\* transforms of the shared-memory matrix (pass-through, embed,
\* pass-through) and the view of the register buffer (unmerge)
strideLDSBufferADelta(o, d) ==
    <<PassThroughDelta(d[1]), EmbedDelta(<<d[2], d[3]>>, <<o.mRepeatStride, 1>>),
      PassThroughDelta(d[4])>>

strideLDSBufferBDelta(o, d) ==
    <<PassThroughDelta(d[1]), EmbedDelta(<<d[2], d[3]>>, <<o.nRepeatStride, 1>>),
      PassThroughDelta(d[4])>>

\* lower coordinates at the first iteration: the transforms applied to the
\* start coordinates {kOffset, 0, threadOffset, 0} and {0, 0, 0, 0}
copyAStart(o, ln, kOff) ==
    [ source |-> strideLDSBufferA(o, <<kOff, 0, ln.threadOffsetA, 0>>),
      dest |-> Unmerge(<<0, 0, 0, 0>>, viewAExtents(o)) ]

copyBStart(o, ln, kOff) ==
    [ source |-> strideLDSBufferB(o, <<kOff, 0, ln.threadOffsetB, 0>>),
      dest |-> Unmerge(<<0, 0, 0, 0>>, viewBExtents(o)) ]

\* lower coordinates of the next iteration, from those of iteration j
AddDelta(lc, sourceDelta, destDelta) ==
    [ source |-> [i \in 1..Len(lc.source) |-> lc.source[i] + sourceDelta[i]],
      dest |-> lc.dest + destDelta ]

copyANext(o, lc, j) ==
    AddDelta(lc, strideLDSBufferADelta(o, UpperDiff(j, copyABounds(o))),
             UnmergeDelta(UpperDiff(j, copyABounds(o)), viewAExtents(o)))

copyBNext(o, lc, j) ==
    AddDelta(lc, strideLDSBufferBDelta(o, UpperDiff(j, copyBBounds(o))),
             UnmergeDelta(UpperDiff(j, copyBBounds(o)), viewBExtents(o)))

-----------------------------------------------------------------------------
(* Inputs.                                                                 *)

PerWaveSizes ==
    {32} \cup {NativeTile * r : r \in 1..MaxRepeat}
         \cup {NativeTile * r + 32 : r \in 1..(MaxRepeat - 1)}

KSizes == {2 * i : i \in 1..MaxKSteps}

KPackAttrs == {0, 2, 4}          \* 0: the op carries no kpack attribute

LdsOffsets == {0, 6, 8}

DataTypes == {"f32", "f16"}

BlockWaves == {1, 2}             \* waves per block along M and N

\* An op whose tile exceeds the native tile has four accumulators (the two-op
\* branches read vectorDs()[0..3] and replace four results); a native tile
\* has one or two.
VectorCounts(mpw, npw) ==
    IF Max2(1, mpw \div NativeTile) * Max2(1, npw \div NativeTile) = 1
    THEN {1, 2} ELSE {4}

V2Tiles ==
    { [ m_per_wave |-> mpw, n_per_wave |-> npw, nVectors |-> nv, waves |-> w ] :
      mpw \in PerWaveSizes, npw \in PerWaveSizes, nv \in 1..4, w \in BlockWaves }

WellFormedTiles ==
    { t \in V2Tiles : t.nVectors \in VectorCounts(t.m_per_wave, t.n_per_wave) }

BlockwiseGemmV2Ops ==
    { [ kind |-> "BlockwiseGemmV2",
        m |-> t.waves * t.m_per_wave, n |-> t.waves * t.n_per_wave, k |-> k,
        m_per_wave |-> t.m_per_wave, n_per_wave |-> t.n_per_wave,
        hasKpack |-> (kp # 0), kpack |-> kp,
        ldsBufferOffsetA |-> la, ldsBufferOffsetB |-> lb,
        dataType |-> dt, nVectors |-> t.nVectors ] :
      t \in WellFormedTiles, k \in KSizes,
      kp \in KPackAttrs, la \in LdsOffsets, lb \in LdsOffsets, dt \in DataTypes }

\* BlockwiseGemm ops.  mRepeat = mC / mPerThread divides m in the rule
\* (m / mRepeat), so the ops have mC >= mPerThread and nC >= nPerThread.
BlockSizes == {4, 8}             \* m and n of the shared-memory matrices

NonXdlopsKPacks == {1, 2}

RepeatStrides == {1, 2}

\* K extents of the shared-memory matrices: kPerThread need not divide k
GemmKSizes == 2..(MaxKSteps + 1)

GemmSides ==
    { [ ext |-> e, c |-> c, perThread |-> t, stride |-> st ] :
      e \in BlockSizes, c \in 1..MaxC, t \in 1..MaxPerThread, st \in RepeatStrides }

BlockwiseGemmOps ==
    { [ kind |-> "BlockwiseGemm",
        k |-> k, m |-> a.ext, n |-> b.ext, kPack |-> kp,
        mC |-> a.c, nC |-> b.c,
        kPerThread |-> kpt, mPerThread |-> a.perThread, nPerThread |-> b.perThread,
        mRepeatStride |-> a.stride, nRepeatStride |-> b.stride ] :
      a \in {g \in GemmSides : g.c >= g.perThread},
      b \in {g \in GemmSides : g.c >= g.perThread},
      k \in GemmKSizes, kpt \in 1..MaxPerThread, kp \in NonXdlopsKPacks }

ThreadOffsets == {0, 1}

\* Fill ops: the buffer's static shape and the constant stored
Shapes(rank) == [1..rank -> 0..MaxExtent]

FillValues == {0, 7}

FillOps ==
    { [ kind |-> "Fill", inputShape |-> sh, value |-> v ] :
      sh \in UNION {Shapes(r) : r \in 0..MaxRank}, v \in FillValues }

\* ThreadwiseCopyV2 ops
CopyLengths == {1, 2, 4}

StoreMethods == {"set", "atomic_add"}

OobDims == { <<>>, <<0>> }

ThreadwiseCopyV2Ops ==
    { [ kind |-> "ThreadwiseCopyV2", length |-> len,
        sourceElementType |-> st, destElementType |-> dt,
        sourceCoord |-> <<sc>>, destCoord |-> <<0, dc>>,
        leftOobDims |-> lo, rightOobDims |-> ro, storeMethod |-> sm ] :
      len \in CopyLengths, st \in DataTypes, dt \in DataTypes,
      sc \in {0, 4}, dc \in {0, 8}, lo \in OobDims, ro \in OobDims,
      sm \in StoreMethods }

\* keys the unit's ops look up in the capability table
TableKeys(o) == IF o.kind = "BlockwiseGemmV2" THEN {SelectionKey(o)} ELSE {}

Tids == {5, 100}

WaveOffsets == { <<0, 128>>, <<128, 0>> }     \* (waveOffsetA, waveOffsetB)

-----------------------------------------------------------------------------
(* The two GEMM rules as functions from the root op to what they leave.    *)

\* BlockwiseGemmV2RewritePattern::matchAndRewrite: every way the rule can end
\* for op o under capability table t
BlockwiseGemmV2RewritePattern(o, t) ==
    LET x == XdlopsCodeSelection_get(t, o)
    IN  \* an entry assert fails
        (IF ~LdsAligned(o)
         THEN {V2Outcome(o, "abort", "assert", <<>>, NoVariant, 0, EmitNothing)}
         ELSE {})
        \cup  \* no instruction variant for the tile: fatal
        (IF LdsAligned(o) /\ x = NoVariant
         THEN {V2Outcome(o, "abort", "no variant", V2BaseOps, x, 0, EmitNothing)}
         ELSE {})
        \cup  \* llvm_unreachable ends the process
        (IF LdsAligned(o) /\ x # NoVariant /\ KPackUnreachable(o, x)
         THEN {V2Outcome(o, "abort", "unreachable", V2BaseOps, x, 0, EmitNothing)}
         ELSE {})
        \cup  \* the rule runs to `return success()`
        (IF LdsAligned(o) /\ x # NoVariant THEN {V2Lowered(o, x)} ELSE {})

\* BlockwiseGemmRewritePattern::matchAndRewrite
BlockwiseGemmRewritePattern(o) ==
    IF strideLDSBufferAValid(o) /\ strideLDSBufferBValid(o)
    THEN {GemmLowered(o)}
    ELSE \* an embed is rejected when the transform is built
         {GemmOutcome(o, "abort", "embed", <<"arith.constant">>, <<>>, <<>>)}

-----------------------------------------------------------------------------
(* State machine.                                                          *)

Init ==
    /\ op \in BlockwiseGemmV2Ops \cup BlockwiseGemmOps \cup FillOps
             \cup ThreadwiseCopyV2Ops
    /\ table \in [TableKeys(op) -> MfmaVariants \cup {NoVariant}]
    /\ pc = "start"
    /\ ir = NoIR
    /\ lane = NoLane
    /\ bufferA = <<>>
    /\ bufferB = <<>>
    /\ loadsA = <<>>
    /\ loadsB = <<>>
    /\ kOffset = 0
    /\ filled = <<>>
    /\ unit = <<op>>
    /\ outcomes = <<NoIR>>
    /\ applicable = <<TRUE>>
    /\ driver = "NotStarted"
    /\ passFailure = FALSE
    /\ iter = 0
    /\ lowerCoords = NoCoords

\* BlockwiseGemmV2RewritePattern::matchAndRewrite
BlockwiseGemmV2Rewrite ==
    /\ pc = "start"
    /\ op.kind = "BlockwiseGemmV2"
    /\ \E r \in BlockwiseGemmV2RewritePattern(op, table) :
         /\ ir' = r
         /\ pc' = IF r.result = "success" THEN "rewritten" ELSE "aborted"
    /\ UNCHANGED <<op, table, lane, bufferA, bufferB, loadsA, loadsB, kOffset>>
    /\ UNCHANGED <<filled, driverVars, nestVars>>

\* One lane runs the staging loops the rule generated.
RunStaging ==
    /\ pc = "rewritten"
    /\ ir.rule = "BlockwiseGemmV2"
    /\ ir.replaced
    /\ \E tid \in Tids, w \in WaveOffsets :
         LET ln == [NoLane EXCEPT !.tid = tid, !.waveOffsetA = w[1],
                                  !.waveOffsetB = w[2]]
         IN /\ lane' = WithBases(op, ln)
            /\ bufferA' = StagedA(op, ir.xcs, ln)
            /\ bufferB' = StagedB(op, ir.xcs, ln)
            /\ loadsA' = Addrs(StagedA(op, ir.xcs, ln))
            /\ loadsB' = Addrs(StagedB(op, ir.xcs, ln))
    /\ pc' = "staged"
    /\ UNCHANGED <<op, table, ir, kOffset>>
    /\ UNCHANGED <<filled, driverVars, nestVars>>

\* BlockwiseGemmRewritePattern::matchAndRewrite
BlockwiseGemmRewrite ==
    /\ pc = "start"
    /\ op.kind = "BlockwiseGemm"
    /\ \E r \in BlockwiseGemmRewritePattern(op) :
         /\ ir' = r
         /\ pc' = IF r.result = "success" THEN "rewritten" ELSE "aborted"
    /\ UNCHANGED <<op, table, lane, bufferA, bufferB, loadsA, loadsB, kOffset>>
    /\ UNCHANGED <<filled, driverVars, nestVars>>

\* A thread enters the generated outer loop (affine.for 0 to k step kPerThread).
EnterLoop ==
    /\ pc = "rewritten"
    /\ ir.rule = "BlockwiseGemm"
    /\ \E ta \in ThreadOffsets, tb \in ThreadOffsets :
         lane' = [NoLane EXCEPT !.threadOffsetA = ta, !.threadOffsetB = tb]
    /\ kOffset' = ir.loop.lb
    /\ pc' = IF ir.loop.lb < ir.loop.ub THEN "loop" ELSE "done"
    /\ UNCHANGED <<op, table, ir, bufferA, bufferB, loadsA, loadsB>>
    /\ UNCHANGED <<filled, driverVars, nestVars>>

\* copyALoop, fully unrolled: shared-memory matrix A to register buffer A
CopyA ==
    /\ pc = "loop"
    /\ loadsA' = CopyALoads(op, lane, kOffset)
    /\ bufferA' = CopyAStores(op, lane, kOffset)
    /\ loadsB' = <<>>
    /\ bufferB' = <<>>
    /\ pc' = "copiedA"
    /\ UNCHANGED <<op, table, ir, lane, kOffset>>
    /\ UNCHANGED <<filled, driverVars, nestVars>>

\* copyBLoop, fully unrolled
CopyB ==
    /\ pc = "copiedA"
    /\ loadsB' = CopyBLoads(op, lane, kOffset)
    /\ bufferB' = CopyBStores(op, lane, kOffset)
    /\ pc' = "copiedB"
    /\ UNCHANGED <<op, table, ir, lane, bufferA, loadsA, kOffset>>
    /\ UNCHANGED <<filled, driverVars, nestVars>>

\* the threadwise GEMM of this iteration, then the loop's increment and test
ThreadwiseGemm ==
    /\ pc = "copiedB"
    /\ kOffset' = kOffset + ir.loop.step
    /\ pc' = IF kOffset + ir.loop.step < ir.loop.ub THEN "loop" ELSE "done"
    /\ UNCHANGED <<op, table, ir, lane, bufferA, bufferB, loadsA, loadsB>>
    /\ UNCHANGED <<filled, driverVars, nestVars>>

\* FillRewritePattern::matchAndRewrite
FillRewrite ==
    /\ pc = "start"
    /\ op.kind = "Fill"
    /\ ir' \in FillRewritePattern(op)
    /\ pc' = "rewritten"
    /\ UNCHANGED <<op, table, lane, bufferA, bufferB, loadsA, loadsB, kOffset>>
    /\ UNCHANGED <<filled, driverVars, nestVars>>

\* One thread runs the loop nest generated for the Fill op.
RunFill ==
    /\ pc = "rewritten"
    /\ ir.rule = "Fill"
    /\ filled' = FillStores(ir)
    /\ pc' = "filled"
    /\ UNCHANGED <<op, table, ir, lane, bufferA, bufferB, loadsA, loadsB, kOffset>>
    /\ UNCHANGED <<driverVars, nestVars>>

\* ThreadwiseCopyV2RewritePattern::matchAndRewrite
ThreadwiseCopyV2Rewrite ==
    /\ pc = "start"
    /\ op.kind = "ThreadwiseCopyV2"
    /\ ir' \in ThreadwiseCopyV2RewritePattern(op)
    /\ pc' = "rewritten"
    /\ UNCHANGED <<op, table, lane, bufferA, bufferB, loadsA, loadsB, kOffset>>
    /\ UNCHANGED <<filled, driverVars, nestVars>>

Next ==
    \/ FillRewrite
    \/ RunFill
    \/ ThreadwiseCopyV2Rewrite
    \/ BlockwiseGemmV2Rewrite
    \/ RunStaging
    \/ BlockwiseGemmRewrite
    \/ EnterLoop
    \/ CopyA
    \/ CopyB
    \/ ThreadwiseGemm

Spec == Init /\ [][Next]_vars

-----------------------------------------------------------------------------
(* The conversion driver: runOnOperation hands the unit, the target and    *)
(* the four patterns to applyPartialConversion.  The driver visits every   *)
(* illegal op of the unit once, in any order.                              *)

\* the pattern registered for the op's kind (patterns.add<...>)
matchAndRewrite(o, t) ==
    CASE o.kind = "Fill" -> FillRewritePattern(o)
      [] o.kind = "BlockwiseGemm" -> BlockwiseGemmRewritePattern(o)
      [] o.kind = "BlockwiseGemmV2" -> BlockwiseGemmV2RewritePattern(o, t)
      [] o.kind = "ThreadwiseCopyV2" -> ThreadwiseCopyV2RewritePattern(o)

\* (faulty variant: a lookup uses up the table's entry)
TableAfterGet_consumed(t, o) ==
    IF o.kind = "BlockwiseGemmV2" /\ LdsAligned(o)
    THEN [t EXCEPT ![SelectionKey(o)] = NoVariant] ELSE t
\* the capability table after the rule's call of XdlopsCodeSelection::get:
\* the lookup has no side effect
TableAfterGet(t, o) == t

\* (faulty variant: the pass signals failure whatever the driver returns)
failed_always(result) == TRUE
\* failed(applyPartialConversion(...)): the test that guards signalPassFailure()
failed(result) == result = "failure"

\* a rule ended the process (assert, fatal error, llvm_unreachable)
Crashed ==
    \E i \in DOMAIN outcomes :
        outcomes[i].rule # "none" /\ outcomes[i].result = "abort"

Pending(i) == outcomes[i].rule = "none"

\* the ops a rewrite leaves in the unit: the ops it created and, unless it
\* replaced it, its root op
LeftBy(o, r) ==
    IF r.rule = "none" THEN {OpName(o)}
    ELSE CreatedOps(r) \cup (IF r.replaced THEN {} ELSE {OpName(o)})

RemainingOps == UNION {LeftBy(unit[i], outcomes[i]) : i \in DOMAIN unit}

\* Units: a few ops of each kind, among them a GEMM-V2 op of every repeat
\* branch, one with a misaligned offset, and a non-XDLOPS op whose embed
\* is rejected.
UnitV2Ops ==
    { o \in BlockwiseGemmV2Ops :
        /\ o.k = 2 /\ o.dataType = "f32"
        /\ o.m = o.m_per_wave /\ o.n = o.n_per_wave
        /\ o.nVectors \in {1, 4}
        /\ \/ /\ o.m_per_wave = o.n_per_wave
              /\ o.m_per_wave \in {64, 128}
              /\ ~o.hasKpack /\ o.ldsBufferOffsetA = 0 /\ o.ldsBufferOffsetB = 0
           \/ /\ o.m_per_wave = 64 /\ o.n_per_wave = 64
              /\ o.kpack = 4 /\ o.ldsBufferOffsetA = 6 /\ o.ldsBufferOffsetB = 0 }

UnitGemmOps ==
    { o \in BlockwiseGemmOps :
        /\ o.k = 2 /\ o.kPack = 1 /\ o.kPerThread = 1
        /\ o.m = 4 /\ o.mC = 2 /\ o.mPerThread = 1 /\ o.mRepeatStride = 1
        /\ o.n = 4 /\ o.nC = 2 /\ o.nPerThread = 1 }

UnitFillOps == { o \in FillOps : o.inputShape = <<2>> /\ o.value = 7 }

UnitCopyOps ==
    { o \in ThreadwiseCopyV2Ops :
        /\ o.length = 2 /\ o.sourceElementType = "f32" /\ o.destElementType = "f32"
        /\ o.sourceCoord = <<0>> /\ o.destCoord = <<0, 0>>
        /\ o.leftOobDims = <<>> /\ o.rightOobDims = <<>> /\ o.storeMethod = "set" }

UnitOps == UnitV2Ops \cup UnitGemmOps \cup UnitFillOps \cup UnitCopyOps

Units == UNION { [1..len -> UnitOps] : len \in 1..MaxUnit }

UnitKeys(u) == UNION { TableKeys(u[i]) : i \in DOMAIN u }

DriverInit ==
    /\ unit \in Units
    /\ table \in [UnitKeys(unit) -> MfmaVariants \cup {NoVariant}]
    /\ applicable \in [DOMAIN unit -> BOOLEAN]
    /\ outcomes = [i \in DOMAIN unit |-> NoIR]
    /\ driver = "NotStarted"
    /\ passFailure = FALSE
    /\ op = unit[1]
    /\ ir = NoIR
    /\ pc = "driver"
    /\ lane = NoLane
    /\ bufferA = <<>>
    /\ bufferB = <<>>
    /\ loadsA = <<>>
    /\ loadsB = <<>>
    /\ kOffset = 0
    /\ filled = <<>>
    /\ iter = 0
    /\ lowerCoords = NoCoords

\* runOnOperation builds the target and the patterns and calls
\* applyPartialConversion
StartConversion ==
    /\ driver = "NotStarted"
    /\ driver' = "Rewriting"
    /\ UNCHANGED <<ruleVars, filled, nestVars, unit, outcomes, applicable, passFailure>>

\* the driver applies the rule of one illegal op that has not been visited
ApplyPattern ==
    /\ driver = "Rewriting"
    /\ ~Crashed
    /\ \E i \in DOMAIN unit :
         /\ Pending(i)
         /\ applicable[i]
         /\ \E r \in matchAndRewrite(unit[i], table) :
              /\ r.result = "success" => \A nm \in CreatedOps(r) : isLegal(nm)
              /\ outcomes' = [outcomes EXCEPT ![i] = r]
              /\ op' = unit[i]
              /\ ir' = r
         /\ table' = TableAfterGet(table, unit[i])
    /\ UNCHANGED <<pc, lane, bufferA, bufferB, loadsA, loadsB, kOffset>>
    /\ UNCHANGED <<filled, nestVars, unit, applicable, driver, passFailure>>

\* a rule cannot be applied to an illegal op, or it created an op that is
\* not legal: applyPartialConversion fails and the pass signals failure
FailConversion ==
    /\ driver = "Rewriting"
    /\ ~Crashed
    /\ \E i \in DOMAIN unit :
         /\ Pending(i)
         /\ \/ ~applicable[i]
            \/ \E r \in matchAndRewrite(unit[i], table) :
                 r.result = "success" /\ \E nm \in CreatedOps(r) : ~isLegal(nm)
    /\ driver' = "Failed"
    /\ passFailure' = (passFailure \/ failed("failure"))
    /\ UNCHANGED <<ruleVars, filled, nestVars, unit, outcomes, applicable>>

\* every illegal op has been visited: applyPartialConversion succeeds
FinishConversion ==
    /\ driver = "Rewriting"
    /\ ~Crashed
    /\ \A i \in DOMAIN unit : ~Pending(i)
    /\ driver' = "Converged"
    /\ passFailure' = (passFailure \/ failed("success"))
    /\ UNCHANGED <<ruleVars, filled, nestVars, unit, outcomes, applicable>>

DriverNext ==
    \/ StartConversion
    \/ ApplyPattern
    \/ FailConversion
    \/ FinishConversion

DriverSpec == DriverInit /\ [][DriverNext]_vars

-----------------------------------------------------------------------------
(* The two unrolled copy loops of one outer-loop iteration, one element    *)
(* per step, with the lower coordinates kept by index differences.         *)

\* ops the rule lowers; the B side has the shape of the A side
NestOps ==
    { o \in BlockwiseGemmOps :
        /\ o.n = o.m /\ o.nC = o.mC /\ o.nPerThread = o.mPerThread
        /\ BlockwiseGemmRewritePattern(o) = {GemmLowered(o)} }

\* values of the outer loop's induction variable
KOffsets(o) == { kk \in 0..(o.k - 1) : kk % o.kPerThread = 0 }

NestInit ==
    /\ op \in NestOps
    /\ ir = GemmLowered(op)
    /\ \E ta \in ThreadOffsets, tb \in ThreadOffsets :
         lane = [NoLane EXCEPT !.threadOffsetA = ta, !.threadOffsetB = tb]
    /\ kOffset \in KOffsets(op)
    /\ pc = "copyA"
    /\ iter = 0
    /\ lowerCoords = copyAStart(op, lane, kOffset)
    /\ table = <<>>
    /\ bufferA = <<>>
    /\ bufferB = <<>>
    /\ loadsA = <<>>
    /\ loadsB = <<>>
    /\ filled = <<>>
    /\ unit = <<op>>
    /\ outcomes = <<ir>>
    /\ applicable = <<TRUE>>
    /\ driver = "Converged"
    /\ passFailure = FALSE

\* copyALoop moves to its next element
CopyAStep ==
    /\ pc = "copyA"
    /\ iter + 1 < Iterations(copyABounds(op))
    /\ lowerCoords' = copyANext(op, lowerCoords, iter)
    /\ iter' = iter + 1
    /\ UNCHANGED <<ruleVars, filled, driverVars>>

\* copyALoop is done; copyBLoop starts from its start coordinates
CopyAEnd ==
    /\ pc = "copyA"
    /\ iter + 1 = Iterations(copyABounds(op))
    /\ pc' = "copyB"
    /\ iter' = 0
    /\ lowerCoords' = copyBStart(op, lane, kOffset)
    /\ UNCHANGED <<op, table, ir, lane, bufferA, bufferB, loadsA, loadsB, kOffset>>
    /\ UNCHANGED <<filled, driverVars>>

CopyBStep ==
    /\ pc = "copyB"
    /\ iter + 1 < Iterations(copyBBounds(op))
    /\ lowerCoords' = copyBNext(op, lowerCoords, iter)
    /\ iter' = iter + 1
    /\ UNCHANGED <<ruleVars, filled, driverVars>>

CopyBEnd ==
    /\ pc = "copyB"
    /\ iter + 1 = Iterations(copyBBounds(op))
    /\ pc' = "copied"
    /\ UNCHANGED <<op, table, ir, lane, bufferA, bufferB, loadsA, loadsB, kOffset>>
    /\ UNCHANGED <<filled, driverVars, nestVars>>

NestNext ==
    \/ CopyAStep
    \/ CopyAEnd
    \/ CopyBStep
    \/ CopyBEnd

NestSpec == NestInit /\ [][NestNext]_vars

-----------------------------------------------------------------------------
(* Properties of the GEMM-V2 rule.                                         *)

V2Ran == ir.rule = "BlockwiseGemmV2"

V2Succeeded == ir.rule = "BlockwiseGemmV2" /\ ir.result = "success"

\* C1: an op with m_per_wave = 128 and n_per_wave = 64 (MRepeats = 2,
\* NRepeats = 1, MPerXdlops = NPerXdlops = 64) is lowered to exactly two
\* instruction-matrix GEMM ops, the first with register K-offsets (0, 0), the
\* second with (KPerThread, 0), and its four results are replaced by
\* [op0.d0, op0.d1, op1.d0, op1.d1].
C1_TwoGemmsFor128x64 ==
    (V2Succeeded /\ op.m_per_wave = 128 /\ op.n_per_wave = 64) =>
        /\ ir.MRepeats = 2 /\ ir.NRepeats = 1
        /\ ir.MPerXdlops = 64 /\ ir.NPerXdlops = 64
        /\ Len(ir.gemms) = 2
        /\ ir.gemms[1].regOffsetA = 0 /\ ir.gemms[1].regOffsetB = 0
        /\ ir.gemms[2].regOffsetA = ir.KPerThread /\ ir.gemms[2].regOffsetB = 0
        /\ ir.replaced
        /\ ir.repl = << <<1, 1>>, <<1, 2>>, <<2, 1>>, <<2, 2>> >>

C1_Witness ==
    /\ pc = "rewritten" /\ V2Succeeded
    /\ op.m_per_wave = 128 /\ op.n_per_wave = 64
    /\ Len(ir.gemms) = 2 /\ ir.gemms[2].regOffsetA > 0

SupportedRepeats == { <<1, 1>>, <<2, 1>>, <<1, 2>> }

\* C2: for an op whose (MRepeats, NRepeats) is not (1,1), (2,1) or (1,2) the
\* rule never returns success.
C2_UnsupportedRepeatsNeverSucceed ==
    (V2Ran /\ <<ir.MRepeats, ir.NRepeats>> \notin SupportedRepeats) =>
        ir.result # "success"

\* ceil(p / 64) = r, stated without division
IsCeilOfTile(r, p) == (r - 1) * NativeTile < p /\ p <= r * NativeTile

\* C3 as stated: the repeat count is ceil(p / 64) for every per-wave size p.
C3_RepeatIsCeil ==
    V2Ran => /\ IsCeilOfTile(ir.MRepeats, op.m_per_wave)
             /\ IsCeilOfTile(ir.NRepeats, op.n_per_wave)

\* max(1, floor(p / 64)) = r, stated without division
IsFloorOfTileAtLeastOne(r, p) ==
    /\ p <= NativeTile => r = 1
    /\ p > NativeTile => (r * NativeTile <= p /\ p < (r + 1) * NativeTile)

\* C3 (amended): the repeat count is 1 for p <= 64 and p / 64 rounded down for
\* p > 64; it is ceil(p / 64) exactly when p <= 64 or p is a multiple of 64.
C3_RepeatIsFloorAtLeastOne ==
    V2Ran =>
        /\ IsFloorOfTileAtLeastOne(ir.MRepeats, op.m_per_wave)
        /\ IsFloorOfTileAtLeastOne(ir.NRepeats, op.n_per_wave)
        /\ (op.m_per_wave <= NativeTile \/ op.m_per_wave % NativeTile = 0)
              => IsCeilOfTile(ir.MRepeats, op.m_per_wave)
        /\ (op.n_per_wave <= NativeTile \/ op.n_per_wave % NativeTile = 0)
              => IsCeilOfTile(ir.NRepeats, op.n_per_wave)
        /\ (op.m_per_wave > NativeTile /\ op.m_per_wave % NativeTile # 0)
              => ~IsCeilOfTile(ir.MRepeats, op.m_per_wave)
        /\ (op.n_per_wave > NativeTile /\ op.n_per_wave % NativeTile # 0)
              => ~IsCeilOfTile(ir.NRepeats, op.n_per_wave)

C3_Witness == V2Ran /\ op.m_per_wave = 96 /\ ir.MRepeats = 1 /\ op.n_per_wave = 128

\* C4: a successful rewrite has issued one instruction-matrix GEMM op per
\* (M-repeat, N-repeat) pair, MRepeats x NRepeats ops in total.
C4_OneGemmPerRepeatPair ==
    V2Succeeded => Len(ir.gemms) = ir.MRepeats * ir.NRepeats

\* C5 as stated: in every supported repeat combination every emitted GEMM op
\* has m_per_wave = n_per_wave = 64.
C5_EveryGemmIs64x64 ==
    (V2Succeeded /\ <<ir.MRepeats, ir.NRepeats>> \in SupportedRepeats) =>
        \A g \in DOMAIN ir.gemms :
            ir.gemms[g].m_per_wave = 64 /\ ir.gemms[g].n_per_wave = 64

\* C5 (amended): when MRepeats > 1 or NRepeats > 1 every emitted GEMM op has
\* m_per_wave = n_per_wave = 64 whatever the original sizes are; for (1,1)
\* the single op carries the original op's m_per_wave and n_per_wave.
C5_RepeatedGemmIs64x64 ==
    V2Succeeded =>
        \A g \in DOMAIN ir.gemms :
            IF ir.MRepeats = 1 /\ ir.NRepeats = 1
            THEN /\ ir.gemms[g].m_per_wave = op.m_per_wave
                 /\ ir.gemms[g].n_per_wave = op.n_per_wave
            ELSE /\ ir.gemms[g].m_per_wave = 64
                 /\ ir.gemms[g].n_per_wave = 64

C5_Witness ==
    /\ V2Succeeded /\ ir.NRepeats = 2 /\ op.m_per_wave = 32
    /\ Len(ir.gemms) = 2 /\ ir.gemms[2].m_per_wave = 64

\* (g, d) before (h, e): first by GEMM op (repeat pair), then by result
ResultBefore(a, b) == a[1] < b[1] \/ (a[1] = b[1] /\ a[2] < b[2])

\* C6: in every supported combination the replacement list is ordered by
\* repeat pair (M-repeat, then N-repeat); replacement value i accumulates
\* input accumulator i and has the type of original result i; for (1,2) the
\* second op has K-offset KPerThread on the B side and 0 on the A side, for
\* (2,1) KPerThread on the A side and 0 on the B side.
C6_StitchedInRepeatOrder ==
    (V2Succeeded /\ <<ir.MRepeats, ir.NRepeats>> \in SupportedRepeats) =>
        /\ ir.replaced
        /\ Len(ir.repl) = op.nVectors
        /\ \A i \in 1..Len(ir.repl) :
              LET g == ir.repl[i][1]
                  d == ir.repl[i][2]
              IN /\ g \in DOMAIN ir.gemms
                 /\ d \in DOMAIN ir.gemms[g].vectorCs
                 /\ ir.gemms[g].vectorCs[d] = <<"vectorC", i>>
                 /\ ir.gemms[g].resultTypes[d] = <<"typeof vectorD", i>>
        /\ \A i, j \in 1..Len(ir.repl) :
              i < j => ResultBefore(ir.repl[i], ir.repl[j])
        /\ ir.gemms[1].regOffsetA = 0 /\ ir.gemms[1].regOffsetB = 0
        /\ (ir.MRepeats = 1 /\ ir.NRepeats = 2) =>
              (ir.gemms[2].regOffsetA = 0 /\ ir.gemms[2].regOffsetB = ir.KPerThread)
        /\ (ir.MRepeats = 2 /\ ir.NRepeats = 1) =>
              (ir.gemms[2].regOffsetA = ir.KPerThread /\ ir.gemms[2].regOffsetB = 0)

C6_Witness ==
    /\ V2Succeeded /\ ir.MRepeats = 1 /\ ir.NRepeats = 2
    /\ Len(ir.repl) = 4 /\ ir.gemms[2].regOffsetB > 0

\* C7: if ldsBufferOffsetA or ldsBufferOffsetB is not a multiple of KPack the
\* rule aborts before it has created any op; if both are multiples the entry
\* check does not abort.
C7_MisalignedOffsetAbortsAtEntry ==
    V2Ran =>
        LET kp == IF op.hasKpack THEN op.kpack ELSE 1
            misaligned == op.ldsBufferOffsetA % kp # 0 \/ op.ldsBufferOffsetB % kp # 0
        IN /\ misaligned => (ir.result = "abort" /\ ir.fatal = "assert"
                             /\ ir.created = <<>> /\ ir.gemms = <<>>)
           /\ ~misaligned => ir.fatal # "assert"

C7_Witness ==
    /\ pc = "aborted" /\ V2Ran /\ ir.fatal = "assert"
    /\ op.hasKpack /\ op.kpack = 4
    /\ op.ldsBufferOffsetA = 8 /\ op.ldsBufferOffsetB = 6

\* the K-pack-granular index term of store s, without base and wave offset
IndexTerm(s, rowLen, perXdlops, x) ==
    IF IsKReduction(x)
    THEN (s.i * x.num_input_blks + blk_id(x, lane)) * rowLen + blk_td(x, lane)
    ELSE s.i * rowLen + (lane.tid % 64) + perXdlops * s.r

\* C8: for every KPack >= 1 and KPack-aligned offsets the base is
\* waveOffset + ldsOffset / KPack (KPack = 4, offset 8: waveOffset + 2; no
\* kpack attribute: KPack = 1), and every element address loaded in staging
\* equals (index term + waveOffset) x KPack + ldsOffset.
C8_KPackRoundTrip ==
    (pc = "staged" /\ V2Succeeded) =>
        LET kp == IF op.hasKpack THEN op.kpack ELSE 1
        IN /\ lane.aBase * kp = lane.waveOffsetA * kp + op.ldsBufferOffsetA
           /\ lane.bBase * kp = lane.waveOffsetB * kp + op.ldsBufferOffsetB
           /\ (op.hasKpack /\ op.kpack = 4 /\ op.ldsBufferOffsetA = 8)
                 => lane.aBase = lane.waveOffsetA + 2
           /\ ~op.hasKpack => lane.aBase = lane.waveOffsetA + op.ldsBufferOffsetA
           /\ \A j \in DOMAIN bufferA :
                 bufferA[j].addr =
                     (IndexTerm(bufferA[j], op.m, ir.MPerXdlops, ir.xcs)
                        + lane.waveOffsetA) * kp + op.ldsBufferOffsetA
           /\ \A j \in DOMAIN bufferB :
                 bufferB[j].addr =
                     (IndexTerm(bufferB[j], op.n, ir.NPerXdlops, ir.xcs)
                        + lane.waveOffsetB) * kp + op.ldsBufferOffsetB

C8_Witness ==
    /\ pc = "staged" /\ op.hasKpack /\ op.kpack = 4 /\ op.ldsBufferOffsetA = 8
    /\ lane.waveOffsetA = 128 /\ lane.aBase = 130
    /\ Len(bufferA) > 0 /\ ~IsKReduction(ir.xcs)

-----------------------------------------------------------------------------
(* Properties of the non-XDLOPS rule.                                      *)

GemmSucceeded == ir.rule = "BlockwiseGemm" /\ ir.result = "success"

Slots(stores) == {stores[j].slot : j \in DOMAIN stores}

\* C9: when the repeat counts divide evenly, each outer-loop iteration reads
\* kPerThread x mRepeat x mPerThread x kPack elements of A and writes exactly
\* that many elements of register buffer A, each at a distinct index; likewise
\* for B with n.
C9_CopyPreservesElementCount ==
    /\ (GemmSucceeded /\ pc \in {"copiedA", "copiedB"} /\ op.mC % op.mPerThread = 0) =>
          LET count == op.kPerThread * (op.mC \div op.mPerThread) * op.mPerThread * op.kPack
          IN /\ Len(loadsA) = count
             /\ Len(bufferA) = count
             /\ Cardinality(Slots(bufferA)) = count
    /\ (GemmSucceeded /\ pc = "copiedB" /\ op.nC % op.nPerThread = 0) =>
          LET count == op.kPerThread * (op.nC \div op.nPerThread) * op.nPerThread * op.kPack
          IN /\ Len(loadsB) = count
             /\ Len(bufferB) = count
             /\ Cardinality(Slots(bufferB)) = count

C9_Witness ==
    /\ GemmSucceeded /\ pc = "copiedB" /\ kOffset > 0
    /\ op.mC = 4 /\ op.mPerThread = 2 /\ op.kPack = 2 /\ op.kPerThread = 2
    /\ op.nC % op.nPerThread = 0
    /\ Len(bufferA) = 16 /\ Len(loadsB) > 1

\* C10 as stated: the rule allocates exactly two private buffers, of
\* kPerThread x mRepeat x kPack and kPerThread x nRepeat x kPack elements.
C10_BuffersSizedPerRepeat ==
    GemmSucceeded =>
        /\ Len(ir.allocs) = 2
        /\ \A a \in DOMAIN ir.allocs : ir.allocs[a].addressSpace = "private"
        /\ ir.allocs[1].size = op.kPerThread * ir.mRepeat * op.kPack
        /\ ir.allocs[2].size = op.kPerThread * ir.nRepeat * op.kPack

\* C10 (amended): the rule allocates exactly two private buffers, of
\* kPerThread x mC x kPack and kPerThread x nC x kPack elements, which is
\* kPerThread x repeat x per-thread tile x kPack when the repeat divides evenly.
C10_BuffersSizedPerOutputExtent ==
    GemmSucceeded =>
        /\ Len(ir.allocs) = 2
        /\ \A a \in DOMAIN ir.allocs : ir.allocs[a].addressSpace = "private"
        /\ ir.allocs[1].size = op.kPerThread * op.mC * op.kPack
        /\ ir.allocs[2].size = op.kPerThread * op.nC * op.kPack
        /\ op.mC % op.mPerThread = 0 =>
              ir.allocs[1].size = op.kPerThread * ir.mRepeat * op.mPerThread * op.kPack
        /\ op.nC % op.nPerThread = 0 =>
              ir.allocs[2].size = op.kPerThread * ir.nRepeat * op.nPerThread * op.kPack

C10_Witness ==
    /\ GemmSucceeded /\ op.mC = 4 /\ op.mPerThread = 2 /\ op.kPack = 2
    /\ op.kPerThread = 2 /\ ir.allocs[1].size = 16 /\ ir.mRepeat = 2

-----------------------------------------------------------------------------
(* Properties of the non-XDLOPS rule's repeat counts and loop structure.   *)

\* C11: the non-XDLOPS rule ends with a fatal error on every op whose mC is
\* not an exact multiple of mPerThread, or whose nC is not an exact multiple
\* of nPerThread: no such op is lowered (with a truncated repeat count).
C11_NonDividingIsRejected ==
    ( /\ ir.rule = "BlockwiseGemm"
      /\ (op.mC % op.mPerThread # 0 \/ op.nC % op.nPerThread # 0) )
    => ir.result = "abort"

\* number of ops named nm in a sequence of op names
CountOps(names, nm) == Cardinality({j \in DOMAIN names : names[j] = nm})

\* C12: the non-XDLOPS rule replaces the op by exactly one outer loop over K,
\* from 0 to k in steps of kPerThread; the loop's body holds, in this order,
\* the copy of the A slice into register buffer A, the copy of the B slice
\* into register buffer B and exactly one threadwise GEMM that reads the two
\* register buffers and accumulates into C.  No threadwise GEMM is created
\* outside the loop, and a thread runs one GEMM per iteration, after both
\* copies of that iteration.
C12_OneLoopCopyCopyGemm ==
    /\ GemmSucceeded =>
         /\ ir.replaced
         /\ CountOps(ir.created, "affine.for") = 1
         /\ ir.created[Len(ir.created)] = "affine.for"
         /\ ir.loop = [lb |-> 0, ub |-> op.k, step |-> op.kPerThread]
         /\ CountOps(ir.created, "miopen.threadwise_gemm") = 0
         /\ CountOps(ir.body, "miopen.threadwise_gemm") = 1
         /\ Len(ir.loopBody) = 3
         /\ ir.loopBody[1].name = "miopen.transforming_for"
         /\ ir.loopBody[1].reads = <<"matrixA">>
         /\ ir.loopBody[1].writes = "threadAAllocOp"
         /\ ir.loopBody[2].name = "miopen.transforming_for"
         /\ ir.loopBody[2].reads = <<"matrixB">>
         /\ ir.loopBody[2].writes = "threadBAllocOp"
         /\ ir.loopBody[3].name = "miopen.threadwise_gemm"
         /\ ir.loopBody[3].reads = <<ir.loopBody[1].writes, ir.loopBody[2].writes>>
         /\ ir.loopBody[3].writes = "matrixC"
    /\ (GemmSucceeded /\ pc \in {"loop", "copiedA", "copiedB"}) =>
         /\ 0 <= kOffset /\ kOffset < op.k
         /\ kOffset % op.kPerThread = 0
    /\ (GemmSucceeded /\ pc = "copiedB") =>
         (bufferA = CopyAStores(op, lane, kOffset) /\
          bufferB = CopyBStores(op, lane, kOffset))

C12_Witness ==
    /\ GemmSucceeded
    /\ pc = "copiedB"
    /\ kOffset = op.kPerThread
    /\ op.k = 2 * op.kPerThread

-----------------------------------------------------------------------------
(* Properties of the Fill rule.                                            *)

FillRan == ir.rule = "Fill" /\ pc = "filled"

\* every coordinate of a buffer of the given shape
AllCoords(inputShape) ==
    { c \in [1..Len(inputShape) -> 0..MaxExtent] :
        \A d \in 1..Len(inputShape) : c[d] < inputShape[d] }

\* C20: the Fill rule replaces the op by a loop nest with one loop per buffer
\* dimension, each from 0 to the dimension's extent in steps of 1, whose body
\* stores the fill constant; run, the nest stores the constant exactly once
\* at every coordinate of the buffer's shape and at no other coordinate.
C20_FillStoresEveryCoordinateOnce ==
    FillRan =>
      /\ ir.replaced /\ ir.repl = <<>>
      /\ Len(ir.loops) = Len(op.inputShape)
      /\ \A d \in 1..Len(ir.loops) :
            ir.loops[d] = [lb |-> 0, ub |-> op.inputShape[d], step |-> 1]
      /\ \A c \in AllCoords(op.inputShape) :
            Cardinality({j \in DOMAIN filled : filled[j].coord = c}) = 1
      /\ \A j \in DOMAIN filled :
            /\ filled[j].coord \in AllCoords(op.inputShape)
            /\ filled[j].value = op.value

C20_Witness ==
    /\ FillRan
    /\ op.inputShape = <<2, 1, 2>>
    /\ Len(filled) = 4
    /\ filled[2].coord = <<0, 0, 1>>

-----------------------------------------------------------------------------
(* Properties of the ops the rules create.                                 *)

RuleRan == ir.rule # "none"

\* the ops the downstream contract lists: arithmetic primitives, affine
\* loops, memory load / store, vector ops (none is created), the
\* instruction-matrix GEMM op, the threadwise GEMM op, the buffer store
ListedLegalSet ==
    {"arith.constant", "arith.addi", "arith.muli", "arith.remui", "arith.divui",
     "affine.for", "memref.load", "memref.store",
     "miopen.xdlops_gemm_v2", "miopen.threadwise_gemm", "miopen.buffer_store"}

\* the further MIOpen ops the rules create
FurtherMIOpenOps ==
    {"miopen.workitem_id", "miopen.alloc", "miopen.transforming_for",
     "miopen.transform", "miopen.in_bounds_load"}

-----------------------------------------------------------------------------
(* Properties of the embed transforms of the non-XDLOPS rule.              *)

GemmRan == ir.rule = "BlockwiseGemm"

\* sum of extent x coefficient of the embed of one side: upper extents
\* (repeat, ext / repeat), coefficients (stride, 1)
ExtentSum(repeat, ext, stride) == repeat * stride + (ext \div repeat) * 1

\* every lower coordinate the embed of one side can produce
EmbedImage(repeat, ext, stride) ==
    { Embed(<<r, t>>, <<stride, 1>>) :
        r \in 0..(repeat - 1), t \in 0..((ext \div repeat) - 1) }

-----------------------------------------------------------------------------
(* Properties of the conversion driver.                                    *)

Visited(i) == outcomes[i].rule # "none"

UnsupportedConfiguration(r) ==
    /\ r.rule = "BlockwiseGemmV2"
    /\ r.fatal # "assert"
    /\ (r.xcs = NoVariant \/ <<r.MRepeats, r.NRepeats>> \notin SupportedRepeats)

\* the ops of a rewrite that stay in the IR (a process that a fatal error
\* ended leaves no IR)
Retained(r) == IF r.result = "success" THEN CreatedOps(r) ELSE {}

\* C16: when the GEMM-V2 rule meets an unsupported configuration, the pass
\* is reported as failed and no partial output is retained: none of the ops
\* the rule created before (base-address arithmetic, lane-id computation,
\* staging loops) remain in the IR.
C16_UnsupportedConfigurationFailsCleanly ==
    \A i \in DOMAIN unit :
        UnsupportedConfiguration(outcomes[i]) =>
          /\ Retained(outcomes[i]) = {}
          /\ driver # "Converged"
          /\ driver = "Failed" => passFailure

-----------------------------------------------------------------------------
(* Properties of the index differences of the copy loops.                  *)

-----------------------------------------------------------------------------
(* Properties of the ThreadwiseCopyV2 rule.                                *)

CopyV2Ran == ir.rule = "ThreadwiseCopyV2"

\* C21: the ThreadwiseCopyV2 rule replaces the op by exactly one load
\* followed by exactly one bounds-checked store.  The load reads, at the
\* op's source coordinate, a vector of the source's element type whose
\* width is the copy length (the element type itself when the length is 1);
\* the store receives the loaded value and the op's destination, left and
\* right out-of-bounds dimensions, destination coordinate and store method,
\* unchanged.
C21_OneLoadOneStore ==
    CopyV2Ran =>
      /\ ir.result = "success"
      /\ ir.created = <<"miopen.in_bounds_load", "miopen.buffer_store">>
      /\ ir.replaced /\ ir.repl = <<"miopen.buffer_store">>
      /\ ir.load.name = "miopen.in_bounds_load"
      /\ ir.load.source = "source"
      /\ ir.load.coord = op.sourceCoord
      /\ ir.load.type.elementType = op.sourceElementType
      /\ ir.load.type.length = op.length
      /\ ir.load.type.vector <=> (op.length # 1)
      /\ ir.store.name = "miopen.buffer_store"
      /\ ir.store.data = "loaded"
      /\ ir.store.dest = "dest"
      /\ ir.store.leftOobDims = op.leftOobDims
      /\ ir.store.rightOobDims = op.rightOobDims
      /\ ir.store.coord = op.destCoord
      /\ ir.store.storeMethod = op.storeMethod

C21_Witness ==
    /\ CopyV2Ran
    /\ op.length = 4
    /\ ir.load.type.vector
    /\ op.storeMethod = "atomic_add"
    /\ op.rightOobDims = <<0>>
    /\ op.destCoord = <<0, 8>>

-----------------------------------------------------------------------------
(* Properties of the staging code of the GEMM-V2 rule.                     *)

\* the K-reduction branch (lines 431-493) is the only code that creates a
\* DivUIOp; the non-K-reduction branch is the only one that nests two loops
StagedWithKReduction(r) == "arith.divui" \in CreatedOps(r)

StagedWithoutKReduction(r) == CountOps(r.created, "affine.for") = 4

\* C22: the GEMM-V2 rule uses the K-reduction staging strategy exactly when
\* the selected instruction has output-block count 1 and input-block count
\* greater than 1, and then KPerThread is K / num_input_blks; in every other
\* case it uses the non-K-reduction strategy with KPerThread = K.
C22_KReductionSelection ==
    V2Succeeded =>
      LET kred == ir.xcs.num_output_blks = 1 /\ ir.xcs.num_input_blks > 1
      IN /\ StagedWithKReduction(ir) <=> kred
         /\ StagedWithoutKReduction(ir) <=> ~kred
         /\ kred => ir.KPerThread = op.k \div ir.xcs.num_input_blks
         /\ ~kred => ir.KPerThread = op.k
         /\ (pc = "staged" /\ kred) =>
               /\ Len(bufferA) = op.k \div ir.xcs.num_input_blks
               /\ Len(bufferB) = op.k \div ir.xcs.num_input_blks
         /\ (pc = "staged" /\ ~kred) =>
               /\ Len(bufferA) = ir.MRepeats * op.k
               /\ Len(bufferB) = ir.NRepeats * op.k

C22_Witness ==
    /\ V2Succeeded
    /\ pc = "staged"
    /\ ir.xcs.num_input_blks = 4 /\ ir.xcs.num_output_blks = 1
    /\ op.k = 4
    /\ ir.KPerThread = 1
    /\ Len(bufferA) = 1

KReductionStaged ==
    /\ V2Succeeded
    /\ pc = "staged"
    /\ ir.xcs.num_output_blks = 1 /\ ir.xcs.num_input_blks > 1

\* K-row and column of a shared-memory address, relative to the wave's
\* base, in a matrix with rowLen elements per K-row
KRow(addr, base, rowLen) == ((addr \div KPack(op)) - base) \div rowLen

KColumn(addr, base, rowLen) == ((addr \div KPack(op)) - base) % rowLen

KRows(stores, base, rowLen) ==
    { KRow(stores[j].addr, base, rowLen) : j \in DOMAIN stores }

\* the lane with thread id t in the wave of the lane that ran
OtherLane(t) == WithBases(op, [lane EXCEPT !.tid = t])

PlainStaged ==
    /\ V2Succeeded
    /\ pc = "staged"
    /\ ~(ir.xcs.num_output_blks = 1 /\ ir.xcs.num_input_blks > 1)

\* the stores of a buffer that fill the slot of repeat index r and K index k
StoresOf(stores, r, k) == { j \in DOMAIN stores : stores[j].r = r /\ stores[j].i = k }

\* C24: in non-K-reduction staging, for every repeat index r in
\* [0, MRepeats) and every k in [0, K), register slot k + r x K of buffer A
\* receives the shared-memory element at the KPack-granular address
\* k x M + laneId + MPerXdlops x r + base (laneId = thread id mod 64); the
\* slots written for different (r, k) are distinct and lie in
\* [0, MRepeats x K).  The same holds for B with N, NRepeats, NPerXdlops.
C24_PlainStaging ==
    PlainStaged =>
      LET lid == lane.tid % 64
          mpx == IF op.m_per_wave > 64 THEN 64 ELSE op.m_per_wave
          npx == IF op.n_per_wave > 64 THEN 64 ELSE op.n_per_wave
      IN /\ \A r \in 0..(ir.MRepeats - 1), k \in 0..(op.k - 1) :
               /\ Cardinality(StoresOf(bufferA, r, k)) = 1
               /\ \A j \in StoresOf(bufferA, r, k) :
                     /\ bufferA[j].slot = k + r * op.k
                     /\ bufferA[j].addr
                          = KPack(op) * (k * op.m + lid + mpx * r + lane.aBase)
         /\ \A r \in 0..(ir.NRepeats - 1), k \in 0..(op.k - 1) :
               /\ Cardinality(StoresOf(bufferB, r, k)) = 1
               /\ \A j \in StoresOf(bufferB, r, k) :
                     /\ bufferB[j].slot = k + r * op.k
                     /\ bufferB[j].addr
                          = KPack(op) * (k * op.n + lid + npx * r + lane.bBase)
         /\ Len(bufferA) = ir.MRepeats * op.k
         /\ Len(bufferB) = ir.NRepeats * op.k
         /\ Slots(bufferA) = 0..(ir.MRepeats * op.k - 1)
         /\ Slots(bufferB) = 0..(ir.NRepeats * op.k - 1)

C24_Witness ==
    /\ PlainStaged
    /\ ir.MRepeats = 2 /\ ir.NRepeats = 1
    /\ op.k = 4
    /\ lane.tid = 100
    /\ \E j \in DOMAIN bufferA :
         bufferA[j].r = 1 /\ bufferA[j].i = 3 /\ bufferA[j].slot = 7

-----------------------------------------------------------------------------
(* Properties of the register buffers of the non-XDLOPS rule.              *)

\* positions in the prologue of the ops named nm
PrologueIndex(nm) == { j \in DOMAIN ir.prologue : ir.prologue[j].name = nm }

RegisterBuffers == {"threadAAllocOp", "threadBAllocOp"}

\* the register buffers are used by nothing in front of the loop, and by
\* the statements of the loop's body
UsedOnlyInLoop ==
    /\ \A j \in DOMAIN ir.prologue :
          \A u \in DOMAIN ir.prologue[j].operands :
             ir.prologue[j].operands[u] \notin RegisterBuffers
    /\ RegisterBuffers \subseteq
          { ir.loopBody[j].writes : j \in DOMAIN ir.loopBody }

\* C25 (as stated): the allocations of the two register buffers of one
\* non-XDLOPS rewrite are placed inside the outer K loop, not before it, and
\* no op outside that loop refers to them.
C25_AllocationsInsideLoop ==
    GemmSucceeded =>
      /\ CountOps(ir.body, "miopen.alloc") = 2
      /\ PrologueIndex("miopen.alloc") = {}
      /\ UsedOnlyInLoop

\* C25 (amended): the two register buffers of one non-XDLOPS rewrite are
\* allocated once, in front of the outer K loop that replaces the op, and
\* not inside it; every op that refers to them is inside that loop's body.
C25_AllocationsBeforeLoop ==
    GemmSucceeded =>
      /\ CountOps(ir.body, "miopen.alloc") = 0
      /\ Cardinality(PrologueIndex("miopen.alloc")) = 2
      /\ Len(ir.allocs) = 2
      /\ \A a \in PrologueIndex("miopen.alloc"), l \in PrologueIndex("affine.for") :
            a < l
      /\ { ir.prologue[j].result : j \in PrologueIndex("miopen.alloc") }
            = RegisterBuffers
      /\ [j \in DOMAIN ir.prologue |-> ir.prologue[j].name] = ir.created
      /\ UsedOnlyInLoop

C25_Witness ==
    /\ GemmSucceeded
    /\ pc = "copiedB"
    /\ kOffset > 0
    /\ PrologueIndex("miopen.alloc") = {2, 3}
    /\ PrologueIndex("affine.for") = {4}

-----------------------------------------------------------------------------
(* Properties of the KPack check of the GEMM-V2 rule.                      *)

\* the created ops include staging code (a loop)
StagingEmitted(r) == CountOps(r.created, "affine.for") > 0

-----------------------------------------------------------------------------
(* Properties of the register slices the instruction-matrix GEMM ops read. *)

\* the slots of a register buffer one created GEMM op consumes from offset
RegisterSlice(offset, kpt) == { offset + j : j \in 0..(kpt - 1) }

\* C27: for every instruction-matrix GEMM op the GEMM-V2 rule emits, the
\* slots [K-offset, K-offset + KPerThread) of buffer A and of buffer B it
\* consumes were all written by the staging loops of the same rewrite.
C27_ConsumedSliceIsStaged ==
    (V2Succeeded /\ pc = "staged") =>
      \A g \in DOMAIN ir.gemms :
         /\ RegisterSlice(ir.gemms[g].regOffsetA, ir.KPerThread)
               \subseteq Slots(bufferA)
         /\ RegisterSlice(ir.gemms[g].regOffsetB, ir.KPerThread)
               \subseteq Slots(bufferB)

-----------------------------------------------------------------------------
(* Properties of the embeds of the non-XDLOPS rule.                        *)

\* the repeat count divides evenly and the repeat dimension alone fits
RepeatFits(c, perThread, ext, stride) ==
    /\ c % perThread = 0
    /\ ext % (c \div perThread) = 0
    /\ (c \div perThread) * stride <= ext

DividingGemmOp ==
    /\ GemmRan
    /\ RepeatFits(op.mC, op.mPerThread, op.m, op.mRepeatStride)
    /\ RepeatFits(op.nC, op.nPerThread, op.n, op.nRepeatStride)

-----------------------------------------------------------------------------
(* Properties of the K coordinates the non-XDLOPS code reads.              *)

\* the K coordinates (first lower coordinate) of a sequence of loads
KCoordinates(loads) == { loads[j][1] : j \in DOMAIN loads }

\* C30: in the code generated by the non-XDLOPS rule, every K coordinate read
\* from the shared-memory matrices A and B, kOffset + i for each outer-loop
\* value kOffset and each i in [0, kPerThread), is less than k, including
\* when kPerThread does not divide k.
C30_KCoordinateBelowK ==
    (GemmSucceeded /\ pc \in {"copiedA", "copiedB"}) =>
      /\ kOffset < op.k
      /\ \A kk \in KCoordinates(loadsA) \cup KCoordinates(loadsB) : kk < op.k

-----------------------------------------------------------------------------
(* Properties of the driver's progress.                                    *)

\* the root ops of the unit that are still in it
RemainingRoots ==
    { i \in DOMAIN unit : ~Visited(i) \/ ~outcomes[i].replaced }

SuccessfulRewrites ==
    { i \in DOMAIN unit : Visited(i) /\ outcomes[i].result = "success" }

\* no rule creates a Fill, BlockwiseGemm, BlockwiseGemmV2 or ThreadwiseCopyV2
\* op
NoRuleCreatesIllegalOp ==
    \A i \in DOMAIN unit :
        Visited(i) => CreatedOps(outcomes[i]) \cap IllegalOps = {}

\* C29: the conversion driver always terminates: no rule ever creates a
\* Fill, BlockwiseGemm, BlockwiseGemmV2 or ThreadwiseCopyV2 op and every
\* rewrite that returns success removes its root op, so the number of
\* illegal ops has decreased by one with each successful rewrite (and the
\* driver, left with none, reaches Converged or Failed).
C29_SuccessRemovesRoot ==
    /\ NoRuleCreatesIllegalOp
    /\ \A i \in SuccessfulRewrites : outcomes[i].replaced
    /\ Cardinality(RemainingRoots)
          = Len(unit) - Cardinality(SuccessfulRewrites)
    /\ driver = "Converged" => RemainingRoots = {}

====
